---- MODULE Spec2Model ----
(***************************************************************************)
(* Model of the play-count tracker: the hourly ingestion of                *)
(* update_counts.py (update_song, load_json, save_json) and the CSV store  *)
(* of app.py (save_entry_to_csv, load_entries_from_csv).                   *)
(*                                                                         *)
(* One tracked item is modelled: the items of SONGS share no state.        *)
(***************************************************************************)
EXTENDS Integers, Sequences, FiniteSets, TLC

\* ------------------------------------------------------------------ bounds

\* Longest series a store may hold (the code has no limit).
MaxLen == 3

\* Values a fetch may yield: zero, one decimal digit and two.
Counts == {0, 9, 10}

\* ------------------------------------------------------------ data model

\* fetch_play_count's "no value".
None == -1

\* A naive datetime, to the second (the stored format keeps no more).
DateTime(d, h, m) == [day |-> d, hour |-> h, minute |-> m, second |-> 0]

\* The readings of datetime.now(IST), in no order (nothing in the code orders
\* them): two in one calendar hour, one in the next hour, one in the same
\* hour of the next day.
DateTimes ==
    {DateTime(0, 9, 0), DateTime(0, 9, 5), DateTime(0, 10, 0), DateTime(1, 9, 0)}

\* strftime('%Y-%m-%d %H:%M:%S IST'): the text of a datetime.
strftime(dt) == <<dt.day, dt.hour, dt.minute, dt.second, "IST">>

\* Does the text parse with '%Y-%m-%d %H:%M:%S' once ' IST' is removed?
is_timestamp(ts) == Len(ts) \in {4, 5}

\* strptime(ts.replace(' IST','').strip(), '%Y-%m-%d %H:%M:%S')
strptime(ts) == [day |-> ts[1], hour |-> ts[2], minute |-> ts[3], second |-> ts[4]]

\* str(count) of a non-negative integer: its decimal digits.
RECURSIVE str(_)
str(n) == IF n < 10 THEN <<n>> ELSE str(n \div 10) \o <<n % 10>>

\* int(text) of a text of decimal digits.
RECURSIVE int(_)
int(s) == IF Len(s) = 0 THEN 0
          ELSE 10 * int(SubSeq(s, 1, Len(s) - 1)) + s[Len(s)]

\* Is the text one int() accepts: decimal digits, at least one?
is_digits(s) == Len(s) >= 1 /\ \A i \in 1..Len(s) : s[i] \in 0..9

\* The last element of a list: s[-1].
Last(s) == s[Len(s)]

\* (a - b).total_seconds() of two datetimes is SecondsOf(a) - SecondsOf(b).
SecondsOf(dt) == ((dt.day * 24 + dt.hour) * 60 + dt.minute) * 60 + dt.second

\* The calendar hour of a datetime: (year, month, day, hour).
hour_bucket(dt) == <<dt.day, dt.hour>>

\* ------------------------------------------------------------ the JSON file

\* A file: absent, or a text. A JSON text is a sequence of tokens: "[", the
\* entries, "]".
NoFile == [exists |-> FALSE, text |-> <<>>]
FileOf(text) == [exists |-> TRUE, text |-> text]
LBracket == [tok |-> "["]
RBracket == [tok |-> "]"]

\* json.dump(data, f, indent=2): the whole text of a list.
json_dump(data) == <<LBracket>> \o data \o <<RBracket>>

\* Is the text a complete JSON list (json.load does not raise)?
json_ok(text) ==
    /\ Len(text) >= 2
    /\ text[1] = LBracket
    /\ text[Len(text)] = RBracket

\* json.load(f) of a complete text.
json_load(text) == SubSeq(text, 2, Len(text) - 1)

\* load_json(path). readable: open() and read() raise nothing.
load_json(f, readable) ==
    IF ~f.exists THEN <<>>
    ELSE IF readable /\ json_ok(f.text) THEN json_load(f.text)
    ELSE <<>>

\* --------------------------------------------------------- update logic

\* should_append_hourly with the same-hour test left out.
should_append_always(existing, now_dt) == TRUE

\* should_append_hourly comparing the hour of the day alone.
should_append_hour_of_day(existing, now_dt) ==
    IF existing = <<>> THEN TRUE
    ELSE now_dt.hour # strptime(existing[Len(existing)].timestamp).hour

\* should_append_hourly(existing, now_dt)
should_append_hourly(existing, now_dt) ==
    IF existing = <<>> THEN TRUE
    ELSE LET last == existing[Len(existing)] IN
         IF ~is_timestamp(last.timestamp) THEN TRUE
         ELSE hour_bucket(now_dt) # hour_bucket(strptime(last.timestamp))

\* The guard on a decreasing count left out.
is_decreasing_never(data, fetched) == FALSE

\* update_song's guard on a decreasing count: data non-empty, and a last
\* play_count that int() accepts (the exception is passed over).
is_decreasing(data, fetched) ==
    /\ data # <<>>
    /\ is_digits(Last(data).play_count)
    /\ fetched < int(Last(data).play_count)

\* The entry update_song builds.
new_entry(fetched, now_dt) ==
    [timestamp |-> strftime(now_dt), play_count |-> str(fetched)]

\* update_song with the same-hour test made before the decreasing test.
update_decision_hour_first(data, fetched, now_dt) ==
    IF fetched = None
    THEN [ret |-> FALSE, msg |-> "No count", data |-> data, save |-> FALSE]
    ELSE IF ~should_append_hourly(data, now_dt)
    THEN [ret |-> FALSE, msg |-> "same hour", data |-> data, save |-> FALSE]
    ELSE IF is_decreasing(data, fetched)
    THEN [ret |-> FALSE, msg |-> "decreasing count", data |-> data, save |-> FALSE]
    ELSE [ret |-> TRUE, msg |-> "Appended",
          data |-> Append(data, new_entry(fetched, now_dt)), save |-> TRUE]

\* update_song with the test for a missing count left out.
update_decision_no_none_test(data, fetched, now_dt) ==
    IF is_decreasing(data, fetched)
    THEN [ret |-> FALSE, msg |-> "decreasing count", data |-> data, save |-> FALSE]
    ELSE IF should_append_hourly(data, now_dt)
    THEN [ret |-> TRUE, msg |-> "Appended",
          data |-> Append(data, new_entry(fetched, now_dt)), save |-> TRUE]
    ELSE [ret |-> FALSE, msg |-> "same hour", data |-> data, save |-> FALSE]

\* update_song after load_json and fetch_play_count: what is returned and
\* printed, the list as it is left, and whether save_json is called.
update_decision(data, fetched, now_dt) ==
    IF fetched = None
    THEN [ret |-> FALSE, msg |-> "No count", data |-> data, save |-> FALSE]
    ELSE IF is_decreasing(data, fetched)
    THEN [ret |-> FALSE, msg |-> "decreasing count", data |-> data, save |-> FALSE]
    ELSE IF should_append_hourly(data, now_dt)
    THEN [ret |-> TRUE, msg |-> "Appended",
          data |-> Append(data, new_entry(fetched, now_dt)), save |-> TRUE]
    ELSE [ret |-> FALSE, msg |-> "same hour", data |-> data, save |-> FALSE]

\* ------------------------------------------------------- app.py's values

\* Python values of app.py: a str of digits, an int, None.
PyStr(digits) == [str |-> digits]
PyInt(n) == [int |-> n]
PyNone == [none |-> TRUE]

\* if play_count: a value is true unless it is None, an empty str or 0.
truthy(v) == v # PyNone /\ v # PyStr(<<>>) /\ v # PyInt(0)

\* No entry in hand.
NoEntry == [timestamp |-> <<>>, play_count |-> PyNone]

\* The first line csv.DictWriter.writeheader writes.
CsvHeader == [tok |-> "timestamp,play_count"]

\* The line csv.DictWriter.writerow writes for an entry whose play_count is
\* a str.
csv_row(e) == [timestamp |-> e.timestamp, play_count |-> e.play_count.str]

\* pandas.read_csv(csv_file).to_dict('records'): an empty file raises
\* EmptyDataError; the first line names the columns whatever it holds; a
\* column of digits is read as integers.
read_csv(text) ==
    IF text = <<>> THEN [ok |-> FALSE, entries |-> <<>>]
    ELSE [ok |-> TRUE,
          entries |-> [i \in 1..(Len(text) - 1) |->
              IF text[1] = CsvHeader
              THEN [timestamp |-> text[i + 1].timestamp,
                    play_count |-> PyInt(int(text[i + 1].play_count))]
              ELSE [misnamed |-> text[i + 1]]]]

\* load_entries_from_csv(csv_file); ok is FALSE when it raises.
load_entries_from_csv(f) ==
    IF f.exists THEN read_csv(f.text) ELSE [ok |-> TRUE, entries |-> <<>>]

\* ----------------------------------------------------------------- state

VARIABLES
    json_file,   \* the item's store file, meta['json_file']
    tmp_file,    \* json_file + '.tmp'
    data,        \* update_song's list: as loaded, then as appended to
    loaded,      \* the list load_json returned to the last call
    read_ok,     \* did the last call's read of the store raise nothing?
    count,       \* the last call's fetch result
    now_dt,      \* the last call's clock reading
    ret,         \* the last call's return value
    msg,         \* the last call's printed outcome
    saves,       \* calls of save_json so far, modulo 2
    pc,          \* where a run of update_song taken step by step stands
    csv_file,    \* app.py: the item's CSV file, song['csv_file']
    entries,     \* app.py: song['entries'], the scheduler's in-memory series
    sched_pc,    \* app.py: where the process and its scheduler thread stand
    entry,       \* app.py: the entry the scheduler is saving
    is_new_file, \* app.py: save_entry_to_csv's is_new_file
    buf,         \* app.py: what the open file object holds unwritten
    csv_before,  \* app.py: the CSV file as save_entry_to_csv found it
    view,        \* app.py: what home's last load_entries_from_csv gave
    avg_rate,    \* app.py: home's avg_rate, None when home gives the item no data
    gap_in,      \* convert_csv_to_json.py: the rows given to filter_hour_gaps
    gap_out,     \* convert_csv_to_json.py: what filter_hour_gaps returned
    gap_twice,   \* convert_csv_to_json.py: filter_hour_gaps of its own output
    gap_pc,      \* convert_csv_to_json.py: how far the filter has been applied
    program,     \* the catalog runs: which program is run
    item_json,   \* update_counts.py: each item's store file
    main_state,  \* update_counts.py: main not started, running, done, crashed
    item_csv,    \* app.py: each item's CSV file
    item_entries, \* app.py: each item's song['entries']
    cycle_state, \* app.py: update_play_count idle, polling, or ended (dead)
    cycle_time,  \* app.py: update_play_count's current_time
    loop_next,   \* the item the for loop over SONGS comes to next
    loop_done,   \* the items the for loop has processed in this run or cycle
    clock,       \* app.py: the wall clock, in seconds
    loop_time,   \* app.py: update_play_count's current_time, in seconds
    last_update_time, \* app.py: the global last_update_time
    loop_pc,     \* app.py: update_play_count at the loop's top, polling, asleep
    poll_started, \* the clock when the latest poll began
    done_started, \* the clock when the latest completed poll began
    poll_ended,  \* the clock when the latest completed poll ended
    sum_file,    \* update_counts.py: the store build_summary loads
    sum_now_hour, \* datetime.now(IST) in find_reference(data, 1)
    sum_now_day, \* datetime.now(IST) in find_reference(data, 24)
    prev_hour,   \* build_summary's prev_hour
    prev_day,    \* build_summary's prev_day
    summary,     \* summary['songs'][sid], when written
    sum_pc,      \* build_summary: before ("in") or after ("out")
    last_op,     \* the program that ran last: "update", "poll", "convert"
    real,        \* the seconds that have passed, whatever the wall clock shows
    slept,       \* the seconds of the current time.sleep(60) that have passed
    due_at,      \* real, when the idle loop's interval was first seen elapsed
    steps,       \* the times the wall clock was set
    fetch_pc,    \* update_counts.py: fetch_play_count at an attempt, in a backoff, returned
    attempt,     \* fetch_play_count's attempt
    last_err,    \* fetch_play_count's last_err
    tries,       \* what each attempt so far came to
    waits,       \* the seconds of each time.sleep so far
    fetch_ret,   \* fetch_play_count's return value
    sum_again,   \* summary['songs'][sid] of a second build_summary over the same store
    fs_text,     \* the text of each file of the directory, by inode
    fs_store,    \* the inode meta['json_file'] names, 0 when it names none
    fs_tmp,      \* the inode json_file + '.tmp' names, 0 when it names none
    proc,        \* each of two executions of update_song: its place, data, open file, offset
    race_orig,   \* the series of the store before the two executions
    race_appended \* the entries of the executions that returned True

\* The variables of update_counts.py and those of app.py.
upvars ==
    <<json_file, tmp_file, data, loaded, read_ok, count, now_dt, ret, msg,
      saves, pc>>
appvars ==
    <<csv_file, entries, sched_pc, entry, is_new_file, buf, csv_before, view,
      avg_rate>>
homevars == <<view, avg_rate>>
gapvars == <<gap_in, gap_out, gap_twice, gap_pc>>
itemvars ==
    <<program, item_json, main_state, item_csv, item_entries, cycle_state,
      cycle_time, loop_next, loop_done>>
schedvars ==
    <<clock, loop_time, last_update_time, loop_pc, poll_started,
      done_started, poll_ended>>
sumvars ==
    <<sum_file, sum_now_hour, sum_now_day, prev_hour, prev_day, summary,
      sum_pc>>
exportvars == <<last_op>>
driftvars == <<real, slept, due_at, steps>>
fetchvars == <<fetch_pc, attempt, last_err, tries, waits, fetch_ret>>
againvars == <<sum_again>>
racevars == <<fs_text, fs_store, fs_tmp, proc, race_orig, race_appended>>
morevars ==
    <<gapvars, itemvars, schedvars, sumvars, exportvars, driftvars,
      fetchvars, againvars, racevars>>
notgap ==
    <<upvars, appvars, itemvars, schedvars, sumvars, exportvars,
      driftvars, fetchvars, againvars, racevars>>
notitem ==
    <<upvars, appvars, gapvars, schedvars, sumvars, exportvars,
      driftvars, fetchvars, againvars, racevars>>
notsched ==
    <<upvars, appvars, gapvars, itemvars, sumvars, exportvars, driftvars,
      fetchvars, againvars, racevars>>
notsum ==
    <<upvars, appvars, gapvars, itemvars, schedvars, exportvars,
      driftvars, fetchvars, againvars, racevars>>
notexport ==
    <<gapvars, itemvars, schedvars, sumvars, driftvars, fetchvars,
      againvars, racevars>>
notclock ==
    <<upvars, appvars, gapvars, itemvars, sumvars, exportvars, fetchvars,
      againvars, racevars>>
notfetch ==
    <<upvars, appvars, gapvars, itemvars, schedvars, sumvars, exportvars,
      driftvars, againvars, racevars>>
notrace ==
    <<upvars, appvars, gapvars, itemvars, schedvars, sumvars, exportvars,
      driftvars, fetchvars, againvars>>
vars == <<upvars, appvars, morevars>>

\* No filter run yet.
InitGapIdle ==
    /\ gap_in = <<>>
    /\ gap_out = <<>>
    /\ gap_twice = <<>>
    /\ gap_pc = "in"

\* The items of SONGS, in the order of the dict.
NItems == 2
Items == 1..NItems

\* Neither program run over the catalog yet; no item has a file.
InitItemsOf(p) ==
    /\ program = p
    /\ item_json = [i \in Items |-> NoFile]
    /\ main_state = "new"
    /\ item_csv = [i \in Items |-> NoFile]
    /\ item_entries = [i \in Items |-> <<>>]
    /\ cycle_state = "idle"
    /\ cycle_time = CHOOSE dt \in DateTimes : TRUE
    /\ loop_next = 1
    /\ loop_done = {}

\* No program has run.
InitExportIdle == last_op = "none"

\* fetch_play_count is called: last_err = None, the for loop is at its
\* first attempt.
InitFetch ==
    /\ fetch_pc = "attempt"
    /\ attempt = 1
    /\ last_err = None
    /\ tries = <<>>
    /\ waits = <<>>
    /\ fetch_ret = None

\* The two executions of update_song, the inodes of the directory.
Procs == 1..2
Inodes == 1..3

\* An execution not begun.
NewProc == [pc |-> "new", data |-> <<>>, handle |-> 0, offset |-> 0]

\* No file in the directory, no execution begun.
InitRaceIdle ==
    /\ fs_text = [i \in Inodes |-> <<>>]
    /\ fs_store = 0
    /\ fs_tmp = 0
    /\ proc = [p \in Procs |-> NewProc]
    /\ race_orig = <<>>
    /\ race_appended = {}

\* No second build_summary.
InitAgainIdle == sum_again = [present |-> FALSE]

\* No time has passed.
InitDriftIdle ==
    /\ real = 0
    /\ slept = 0
    /\ due_at = None
    /\ steps = 0

\* No entry of the summary.
NoSummary == [present |-> FALSE]

\* build_summary not called.
InitSumIdle ==
    /\ sum_file = NoFile
    /\ sum_now_hour = DateTime(0, 0, 0)
    /\ sum_now_day = DateTime(0, 0, 0)
    /\ prev_hour = PyNone
    /\ prev_day = PyNone
    /\ summary = NoSummary
    /\ sum_pc = "in"

\* app.py as loaded: last_update_time = None; the thread is at the top of
\* its loop.
InitSched ==
    /\ clock = 0
    /\ loop_time = None
    /\ last_update_time = None
    /\ loop_pc = "top"
    /\ poll_started = None
    /\ done_started = None
    /\ poll_ended = None

\* update_counts.py before its first run: no store file.
InitUp ==
    /\ json_file = NoFile
    /\ tmp_file = NoFile
    /\ data = <<>>
    /\ loaded = <<>>
    /\ read_ok = TRUE
    /\ count = None
    /\ now_dt = CHOOSE dt \in DateTimes : TRUE
    /\ ret = FALSE
    /\ msg = "none"
    /\ saves = 0
    /\ pc = "idle"

\* app.py as the module is loaded with no CSV file yet: the initial load
\* finds nothing.
InitApp ==
    /\ csv_file = NoFile
    /\ entries = <<>>
    /\ sched_pc = "start"
    /\ entry = NoEntry
    /\ is_new_file = FALSE
    /\ buf = <<>>
    /\ csv_before = NoFile
    /\ view = [ok |-> TRUE, entries |-> <<>>]
    /\ avg_rate = PyNone

Init ==
    /\ InitApp
    /\ InitUp
    /\ InitGapIdle
    /\ InitItemsOf("none")
    /\ InitSched
    /\ InitSumIdle
    /\ InitExportIdle
    /\ InitDriftIdle
    /\ InitAgainIdle
    /\ InitRaceIdle
    /\ InitFetch

\* save_json writing the newest entry alone.
save_json_last_only(d) == FileOf(json_dump(<<d[Len(d)]>>))

\* save_json(path, data), uninterrupted: the temporary file is written and
\* renamed over the store.
save_json(d) == FileOf(json_dump(d))

\* One call of update_song, run to its end.
UpdateSong ==
    \E readable \in BOOLEAN, fetched \in Counts \cup {None}, now \in DateTimes :
        LET ld == load_json(json_file, readable)
            r == update_decision(ld, fetched, now)
        IN /\ Len(r.data) <= MaxLen
           /\ loaded' = ld
           /\ read_ok' = (~json_file.exists \/ (readable /\ json_ok(json_file.text)))
           /\ count' = fetched
           /\ now_dt' = now
           /\ data' = r.data
           /\ ret' = r.ret
           /\ msg' = r.msg
           /\ json_file' = IF r.save THEN save_json(r.data) ELSE json_file
           /\ saves' = IF r.save THEN (saves + 1) % 2 ELSE saves
           /\ tmp_file' = tmp_file
           /\ pc' = pc
           /\ UNCHANGED <<appvars, morevars>>

Next == UpdateSong

Spec == Init /\ [][Next]_vars

\* ------------------------------------------- save_json, step by step

\* Longest series a store may hold in the step-by-step runs.
MaxCrashLen == 3

\* The clock readings and the fetched values of the step-by-step runs: two
\* calendar hours, two values.
CrashDateTimes == {DateTime(0, 9, 0), DateTime(0, 10, 0)}
CrashCounts == {9, 10}

\* open(tmp, 'w'): the temporary file is created, or emptied.
open_w(f) == FileOf(<<>>)

\* One more token of json.dump's text reaches the file.
write_next(f, d) == FileOf(SubSeq(json_dump(d), 1, Len(f.text) + 1))

\* The with block left at once, whatever has been written.
write_done_early(f, d) == TRUE

\* The with block is left: json.dump has returned and the file is closed.
write_done(f, d) == f.text = json_dump(d)

\* update_song up to its call of save_json: the store is read, the count
\* fetched, the outcome decided.
Begin ==
    /\ pc = "idle"
    /\ \E readable \in BOOLEAN, fetched \in CrashCounts \cup {None},
          now \in CrashDateTimes :
        LET ld == load_json(json_file, readable)
            r == update_decision(ld, fetched, now)
        IN /\ Len(r.data) <= MaxCrashLen
           /\ loaded' = ld
           /\ read_ok' = (~json_file.exists \/ (readable /\ json_ok(json_file.text)))
           /\ count' = fetched
           /\ now_dt' = now
           /\ data' = r.data
           /\ ret' = FALSE
           /\ msg' = IF r.save THEN "saving" ELSE r.msg
           /\ saves' = IF r.save THEN (saves + 1) % 2 ELSE saves
           /\ pc' = IF r.save THEN "open" ELSE "idle"
           /\ UNCHANGED <<json_file, tmp_file>>
           /\ UNCHANGED <<appvars, morevars>>

\* with open(tmp, 'w') as f
SaveOpen ==
    /\ pc = "open"
    /\ tmp_file' = open_w(tmp_file)
    /\ pc' = "write"
    /\ UNCHANGED <<json_file, data, loaded, read_ok, count, now_dt, ret, msg, saves>>
    /\ UNCHANGED <<appvars, morevars>>

\* json.dump(data, f, indent=2), a piece at a time
SaveWrite ==
    /\ pc = "write"
    /\ tmp_file.text # json_dump(data)
    /\ tmp_file' = write_next(tmp_file, data)
    /\ UNCHANGED <<json_file, data, loaded, read_ok, count, now_dt, ret, msg, saves, pc>>
    /\ UNCHANGED <<appvars, morevars>>

\* os.replace(tmp, path): the temporary file takes the store's name in one
\* step.
SaveReplace ==
    /\ pc = "write"
    /\ write_done(tmp_file, data)
    /\ json_file' = tmp_file
    /\ tmp_file' = NoFile
    /\ pc' = "return"
    /\ UNCHANGED <<data, loaded, read_ok, count, now_dt, ret, msg, saves>>
    /\ UNCHANGED <<appvars, morevars>>

\* save_json has returned: update_song prints and returns True.
Return ==
    /\ pc = "return"
    /\ ret' = TRUE
    /\ msg' = "Appended"
    /\ pc' = "idle"
    /\ UNCHANGED <<json_file, tmp_file, data, loaded, read_ok, count, now_dt, saves>>
    /\ UNCHANGED <<appvars, morevars>>

\* The process dies in save_json or right after it; the files stay as they
\* are.
Crash ==
    /\ pc \in {"open", "write", "return"}
    /\ pc' = "idle"
    /\ msg' = "crashed"
    /\ UNCHANGED <<json_file, tmp_file, data, loaded, read_ok, count, now_dt, ret, saves>>
    /\ UNCHANGED <<appvars, morevars>>

NextCrash == Begin \/ SaveOpen \/ SaveWrite \/ SaveReplace \/ Return \/ Crash

SpecCrash == Init /\ [][NextCrash]_vars

\* ------------------------------------------------- app.py: the CSV store

\* Longest series the scheduler may hold in memory.
MaxAppLen == 3

\* What app.py's fetch_play_count returns: a str of digits, or None.
AppCounts == {9, 10}
AppFetched == {PyNone} \cup {PyStr(str(c)) : c \in AppCounts}

\* The readings of datetime.now(ist_tz).
AppDateTimes == {DateTime(0, 9, 0), DateTime(0, 10, 0)}

\* The entry built from a fetched count and the current time.
app_entry(play_count, current_time) ==
    [timestamp |-> strftime(current_time), play_count |-> play_count]

\* update_play_count's is_new_entry.
is_new_entry(es, play_count) ==
    IF es = <<>> THEN TRUE ELSE Last(es).play_count # play_count

\* What save_entry_to_csv's writer puts in the file object: the header for a
\* new file, then the row.
csv_lines(new_file, e) ==
    (IF new_file THEN <<CsvHeader>> ELSE <<>>) \o <<csv_row(e)>>

\* save_entry_to_csv(csv_file, entry), uninterrupted.
save_entry_to_csv(f, e) == FileOf(f.text \o csv_lines(~f.exists, e))

\* The __main__ block: with no entries loaded, one fetch and one save, then
\* the scheduler thread and the server are started. An IOError in the save
\* ends the process.
Startup ==
    /\ sched_pc = "start"
    /\ \E fetched \in AppFetched, now \in AppDateTimes, io_error \in BOOLEAN :
        IF entries = <<>> /\ truthy(fetched)
        THEN IF io_error
             THEN /\ sched_pc' = "exit"
                  /\ UNCHANGED <<csv_file, entries, entry>>
             ELSE /\ entry' = app_entry(fetched, now)
                  /\ csv_file' = save_entry_to_csv(csv_file, entry')
                  /\ entries' = Append(entries, entry')
                  /\ sched_pc' = "idle"
        ELSE /\ sched_pc' = "idle"
             /\ UNCHANGED <<csv_file, entries, entry>>
    /\ UNCHANGED <<is_new_file, buf, csv_before, homevars>>
    /\ UNCHANGED <<upvars, morevars>>

\* update_play_count, a poll found due: the count is fetched and, when it is
\* there and new, the entry is appended in memory; save_entry_to_csv follows.
PollFetch ==
    /\ sched_pc = "idle"
    /\ \E fetched \in AppFetched, current_time \in AppDateTimes :
        IF truthy(fetched) /\ is_new_entry(entries, fetched)
        THEN /\ Len(entries) < MaxAppLen
             /\ entry' = app_entry(fetched, current_time)
             /\ entries' = Append(entries, entry')
             /\ sched_pc' = "exists"
        ELSE UNCHANGED <<entries, entry, sched_pc>>
    /\ UNCHANGED <<csv_file, is_new_file, buf, csv_before, homevars>>
    /\ UNCHANGED <<upvars, morevars>>

\* is_new_file = not os.path.exists(csv_file)
CsvExists ==
    /\ sched_pc = "exists"
    /\ is_new_file' = ~csv_file.exists
    /\ csv_before' = csv_file
    /\ sched_pc' = "open"
    /\ UNCHANGED <<csv_file, entries, entry, buf, homevars>>
    /\ UNCHANGED <<upvars, morevars>>

\* open(csv_file, 'a', newline=''): a missing file is created, empty.
CsvOpen ==
    /\ sched_pc = "open"
    /\ csv_file' = FileOf(csv_file.text)
    /\ buf' = <<>>
    /\ sched_pc' = "rows"
    /\ UNCHANGED <<entries, entry, is_new_file, csv_before, homevars>>
    /\ UNCHANGED <<upvars, morevars>>

\* open raises IOError: save_entry_to_csv logs and raises again, nothing in
\* update_play_count catches it, the scheduler thread ends.
CsvOpenFails ==
    /\ sched_pc = "open"
    /\ sched_pc' = "dead"
    /\ UNCHANGED <<csv_file, entries, entry, is_new_file, buf, csv_before, homevars>>
    /\ UNCHANGED <<upvars, morevars>>

\* writer.writeheader() for a new file and writer.writerow(entry): the lines
\* go to the file object's buffer.
CsvWrite ==
    /\ sched_pc = "rows"
    /\ buf' = csv_lines(is_new_file, entry)
    /\ sched_pc' = "close"
    /\ UNCHANGED <<csv_file, entries, entry, is_new_file, csv_before, homevars>>
    /\ UNCHANGED <<upvars, morevars>>

\* The with block is left: the buffer is written at the end of the file in
\* one write, the file is closed; the poll is over.
CsvClose ==
    /\ sched_pc = "close"
    /\ csv_file' = FileOf(csv_file.text \o buf)
    /\ buf' = <<>>
    /\ sched_pc' = "idle"
    /\ UNCHANGED <<entries, entry, is_new_file, csv_before, homevars>>
    /\ UNCHANGED <<upvars, morevars>>

\* The seconds of a minute.
MinuteSeconds == 60

\* A float that is the quotient of two integers.
PyFloat(n, d) == [num |-> n, den |-> d]

\* first = entries[-1]; last = entries[0]
home_ends(es) == [first |-> es[Len(es)], last |-> es[1]]

\* home's "Calculate rate": time_diff is in minutes, here seconds / 60.
home_avg_rate(es) ==
    IF Len(es) >= 2
    THEN LET first == home_ends(es).first
             last == home_ends(es).last
             seconds == SecondsOf(strptime(last.timestamp))
                            - SecondsOf(strptime(first.timestamp))
             total_increase == last.play_count.int - first.play_count.int
         IN IF seconds > 0
            THEN PyFloat(total_increase * MinuteSeconds, seconds)
            ELSE PyInt(0)
    ELSE PyInt(0)

\* home(), a request served while the process runs: the series is loaded
\* from the CSV file.
Home ==
    /\ sched_pc \notin {"start", "exit"}
    /\ view' = load_entries_from_csv(csv_file)
    /\ avg_rate' = IF view'.ok /\ view'.entries # <<>>
                      /\ \A i \in 1..Len(view'.entries) :
                             "timestamp" \in DOMAIN view'.entries[i]
                   THEN home_avg_rate(view'.entries)
                   ELSE PyNone
    /\ UNCHANGED <<csv_file, entries, sched_pc, entry, is_new_file, buf, csv_before>>
    /\ UNCHANGED <<upvars, morevars>>

NextApp ==
    \/ Startup
    \/ PollFetch
    \/ CsvExists
    \/ CsvOpen
    \/ CsvOpenFails
    \/ CsvWrite
    \/ CsvClose
    \/ Home

SpecApp == Init /\ [][NextApp]_vars

\* The process is ended and started again: the module is loaded anew,
\* song['entries'] = load_entries_from_csv(song['csv_file']); what a save
\* under way had not written is lost. pandas raising on an empty file ends
\* the new process before it serves anything.
Restart ==
    /\ sched_pc # "start"
    /\ LET r == load_entries_from_csv(csv_file) IN
       IF r.ok
       THEN entries' = r.entries /\ sched_pc' = "start"
       ELSE entries' = <<>> /\ sched_pc' = "exit"
    /\ entry' = NoEntry
    /\ is_new_file' = FALSE
    /\ buf' = <<>>
    /\ UNCHANGED <<csv_file, csv_before, homevars>>
    /\ UNCHANGED <<upvars, morevars>>

NextRestart == NextApp \/ Restart

SpecRestart == Init /\ [][NextRestart]_vars

\* ------------------------------- convert_csv_to_json.py: filter_hour_gaps

\* Longest list of rows given to the filter.
MaxGapLen == 3

\* filter_hour_gaps's default gap_minutes, and the minutes it allows below.
GapMinutes == 60
GapTolerance == 5


\* parse_ts(ts)
parse_ts(ts) == strptime(ts)

\* The rows load_csv may return: five times of one morning (30, 55, 65 and
\* 110 minutes after the first), two values.
GapDateTimes ==
    {DateTime(0, 9, 0), DateTime(0, 9, 30), DateTime(0, 9, 55),
     DateTime(0, 10, 5), DateTime(0, 10, 50)}
GapCounts == {9, 10}
GapRows ==
    {[timestamp |-> strftime(dt), play_count |-> str(c)] :
        dt \in GapDateTimes, c \in GapCounts}
GapInputs == UNION {[1..n -> GapRows] : n \in 0..MaxGapLen}

\* The entry put before all the others, whatever its time: the list comes
\* out reversed, not sorted.
insert_front(t, e) == <<e>> \o t

\* sorted() puts an entry after every entry whose key is not larger: the
\* sort is stable.
insert_sorted(t, e) ==
    LET k == Cardinality({i \in 1..Len(t) :
                 SecondsOf(parse_ts(t[i].timestamp))
                     <= SecondsOf(parse_ts(e.timestamp))})
    IN SubSeq(t, 1, k) \o <<e>> \o SubSeq(t, k + 1, Len(t))

\* sorted(entries, key=lambda e: parse_ts(e['timestamp']))
RECURSIVE sorted_entries(_)
sorted_entries(es) ==
    IF es = <<>> THEN <<>>
    ELSE insert_sorted(sorted_entries(SubSeq(es, 1, Len(es) - 1)), Last(es))

\* The scan keeping an entry only when it is more than the threshold after
\* the last kept one.
keep_entry_strict(filtered, e, gap_minutes) ==
    \/ filtered = <<>>
    \/ SecondsOf(parse_ts(e.timestamp))
           - SecondsOf(parse_ts(Last(filtered).timestamp))
         > (gap_minutes - GapTolerance) * 60

\* Is an entry kept by the scan? last_kept_time is the time of the last entry
\* of filtered, None while filtered is empty.
keep_entry(filtered, e, gap_minutes) ==
    \/ filtered = <<>>
    \/ SecondsOf(parse_ts(e.timestamp))
           - SecondsOf(parse_ts(Last(filtered).timestamp))
         >= (gap_minutes - GapTolerance) * 60

\* The for loop over entries_sorted.
RECURSIVE scan_gaps(_, _, _)
scan_gaps(es, filtered, gap_minutes) ==
    IF es = <<>> THEN filtered
    ELSE scan_gaps(Tail(es),
                   IF keep_entry(filtered, Head(es), gap_minutes)
                   THEN Append(filtered, Head(es)) ELSE filtered,
                   gap_minutes)

\* Is the newest entry to be appended after the scan?
needs_newest(filtered, es) ==
    filtered # <<>> /\ Last(filtered).timestamp # Last(es).timestamp

\* filter_hour_gaps(entries, gap_minutes)
filter_hour_gaps(es, gap_minutes) ==
    IF es = <<>> THEN <<>>
    ELSE LET entries_sorted == sorted_entries(es)
             filtered == scan_gaps(entries_sorted, <<>>, gap_minutes)
         IN IF needs_newest(filtered, entries_sorted)
            THEN Append(filtered, Last(entries_sorted))
            ELSE filtered

\* The rows load_csv returned, any list of them.
InitGap ==
    /\ InitApp
    /\ InitUp
    /\ InitItemsOf("none")
    /\ InitSched
    /\ InitSumIdle
    /\ InitExportIdle
    /\ InitDriftIdle
    /\ InitAgainIdle
    /\ InitRaceIdle
    /\ InitFetch
    /\ gap_in \in GapInputs
    /\ gap_out = <<>>
    /\ gap_twice = <<>>
    /\ gap_pc = "in"

\* filtered = filter_hour_gaps(rows)
Filter ==
    /\ gap_pc = "in"
    /\ gap_out' = filter_hour_gaps(gap_in, GapMinutes)
    /\ gap_pc' = "once"
    /\ UNCHANGED <<gap_in, gap_twice>>
    /\ UNCHANGED notgap

\* filter_hour_gaps applied to what it returned.
FilterAgain ==
    /\ gap_pc = "once"
    /\ gap_twice' = filter_hour_gaps(gap_out, GapMinutes)
    /\ gap_pc' = "twice"
    /\ UNCHANGED <<gap_in, gap_out>>
    /\ UNCHANGED notgap

NextGap == Filter \/ FilterAgain

SpecGap == InitGap /\ [][NextGap]_vars

\* --------------------------------------------- the loops over the catalog

\* Longest series an item may hold in the catalog runs.
MaxItemLen == 2

\* main() of update_counts.py is started (a new process).
MainStart ==
    /\ program = "update_counts"
    /\ main_state \in {"new", "done", "crashed"}
    /\ main_state' = "running"
    /\ loop_next' = 1
    /\ loop_done' = {}
    /\ UNCHANGED <<program, item_json, item_csv, item_entries, cycle_state, cycle_time>>
    /\ UNCHANGED notitem

\* main's for loop: update_song(sid, meta) for the next item. A fetch that
\* fails yields None inside fetch_play_count; an exception of save_json
\* (open or os.replace raising) is caught nowhere and ends main.
MainItem(i) ==
    /\ program = "update_counts"
    /\ main_state = "running"
    /\ loop_next = i
    /\ \E readable \in BOOLEAN, fetched \in CrashCounts \cup {None},
          now \in CrashDateTimes, write_fails \in BOOLEAN :
        LET r == update_decision(load_json(item_json[i], readable), fetched, now)
        IN /\ Len(r.data) <= MaxItemLen
           /\ IF r.save /\ write_fails
              THEN /\ main_state' = "crashed"
                   /\ UNCHANGED <<item_json, loop_next, loop_done>>
              ELSE /\ item_json' = [item_json EXCEPT
                          ![i] = IF r.save THEN save_json(r.data) ELSE @]
                   /\ loop_next' = i + 1
                   /\ loop_done' = loop_done \cup {i}
                   /\ UNCHANGED main_state
    /\ UNCHANGED <<program, item_csv, item_entries, cycle_state, cycle_time>>
    /\ UNCHANGED notitem

\* The loop is over: build_summary() runs and main returns.
MainEnd ==
    /\ program = "update_counts"
    /\ main_state = "running"
    /\ loop_next = NItems + 1
    /\ main_state' = "done"
    /\ UNCHANGED <<program, item_json, item_csv, item_entries, cycle_state,
                   cycle_time, loop_next, loop_done>>
    /\ UNCHANGED notitem

\* update_play_count finds a poll due: current_time is read, the for loop
\* over SONGS starts.
CycleStart ==
    /\ program = "app"
    /\ cycle_state = "idle"
    /\ cycle_state' = "polling"
    /\ cycle_time' \in AppDateTimes
    /\ loop_next' = 1
    /\ loop_done' = {}
    /\ UNCHANGED <<program, item_json, main_state, item_csv, item_entries>>
    /\ UNCHANGED notitem

\* The for loop's body for the next item: the fetch (None when it fails), the
\* append in memory, save_entry_to_csv. An exception of save_entry_to_csv is
\* logged and raised again; update_play_count catches nothing, the thread
\* ends.
CycleItem(i) ==
    /\ program = "app"
    /\ cycle_state = "polling"
    /\ loop_next = i
    /\ \E fetched \in AppFetched, io_error \in BOOLEAN :
        IF truthy(fetched) /\ is_new_entry(item_entries[i], fetched)
        THEN LET e == app_entry(fetched, cycle_time) IN
             /\ Len(item_entries[i]) < MaxItemLen
             /\ item_entries' = [item_entries EXCEPT ![i] = Append(@, e)]
             /\ IF io_error
                THEN /\ cycle_state' = "dead"
                     /\ UNCHANGED <<item_csv, loop_next, loop_done>>
                ELSE /\ item_csv' = [item_csv EXCEPT
                            ![i] = save_entry_to_csv(@, e)]
                     /\ loop_next' = i + 1
                     /\ loop_done' = loop_done \cup {i}
                     /\ UNCHANGED cycle_state
        ELSE /\ loop_next' = i + 1
             /\ loop_done' = loop_done \cup {i}
             /\ UNCHANGED <<item_entries, item_csv, cycle_state>>
    /\ UNCHANGED <<program, item_json, main_state, cycle_time>>
    /\ UNCHANGED notitem

\* The for loop is over: last_update_time = current_time, the loop sleeps.
CycleEnd ==
    /\ program = "app"
    /\ cycle_state = "polling"
    /\ loop_next = NItems + 1
    /\ cycle_state' = "idle"
    /\ UNCHANGED <<program, item_json, main_state, item_csv, item_entries,
                   cycle_time, loop_next, loop_done>>
    /\ UNCHANGED notitem

NextItems ==
    \/ MainStart
    \/ \E i \in Items : MainItem(i)
    \/ MainEnd
    \/ CycleStart
    \/ \E i \in Items : CycleItem(i)
    \/ CycleEnd

\* Either program, about to run over the catalog on its own.
InitItems ==
    /\ InitApp
    /\ InitUp
    /\ InitGapIdle
    /\ InitSched
    /\ InitSumIdle
    /\ InitExportIdle
    /\ InitDriftIdle
    /\ InitAgainIdle
    /\ InitRaceIdle
    /\ InitFetch
    /\ \E p \in {"update_counts", "app"} : InitItemsOf(p)

SpecItems == InitItems /\ [][NextItems]_vars

\* ------------------------------------- app.py: the scheduler's timing

\* The clock reading at which the runs are cut off.
MaxClock == 2000

\* The seconds between polls and the seconds slept between checks.
PollInterval == 900
TickSeconds == 60

\* The seconds a poll may take (the fetches and the saves), and the seconds
\* time.sleep(60) may take: the 60 asked for, or more.
PollSeconds == {20, 120}
SleepSeconds == {TickSeconds, TickSeconds + 20}

\* Is a poll due?
poll_due(last, now) == last = None \/ now - last >= PollInterval

\* The time of completion recorded instead.
recorded_time_now(at_top, at_end) == at_end

\* What last_update_time is set to when the poll is over: current_time, read
\* at the top of the loop.
recorded_time(at_top, at_end) == at_top

\* The top of the while loop: the clock is read and the poll is started when
\* due; otherwise the loop goes to sleep.
LoopTop ==
    /\ loop_pc = "top"
    /\ loop_time' = clock
    /\ IF poll_due(last_update_time, clock)
       THEN loop_pc' = "poll" /\ poll_started' = clock
       ELSE loop_pc' = "sleep" /\ UNCHANGED poll_started
    /\ UNCHANGED <<clock, last_update_time, done_started, poll_ended>>
    /\ UNCHANGED notsched

\* The for loop over SONGS takes its time; last_update_time is set.
PollDone ==
    /\ loop_pc = "poll"
    /\ \E d \in PollSeconds :
        /\ clock + d <= MaxClock
        /\ clock' = clock + d
    /\ last_update_time' = recorded_time(loop_time, clock')
    /\ done_started' = poll_started
    /\ poll_ended' = clock'
    /\ loop_pc' = "sleep"
    /\ UNCHANGED <<loop_time, poll_started>>
    /\ UNCHANGED notsched

\* time.sleep(60)
Sleep ==
    /\ loop_pc = "sleep"
    /\ \E d \in SleepSeconds :
        /\ clock + d <= MaxClock
        /\ clock' = clock + d
    /\ loop_pc' = "top"
    /\ UNCHANGED <<loop_time, last_update_time, poll_started, done_started,
                   poll_ended>>
    /\ UNCHANGED notsched

NextSched == LoopTop \/ PollDone \/ Sleep

SpecSched == Init /\ [][NextSched]_vars

\* ------------------------- app.py: the scheduler under a clock that is set

\* The seconds after which the runs are cut off, and the times the wall
\* clock may be set in a run.
MaxReal == 2100
MaxSteps == 1

\* The seconds a poll takes in these runs, the seconds between two looks at
\* the sleeping loop, and the seconds by which the wall clock may be set
\* forward or back.
DriftPollSeconds == {30}
SleepStep == 30
DriftSeconds == {-90, 90}

\* The moment the idle loop's interval is first seen elapsed by the wall
\* clock: kept until the next poll starts.
due_after(due, idle, last, now, real_now) ==
    IF due = None /\ idle /\ last # None /\ poll_due(last, now)
    THEN real_now ELSE due

\* The top of the while loop, as LoopTop.
DriftTop ==
    /\ loop_pc = "top"
    /\ loop_time' = clock
    /\ IF poll_due(last_update_time, clock)
       THEN loop_pc' = "poll" /\ poll_started' = clock /\ due_at' = None
       ELSE loop_pc' = "sleep" /\ UNCHANGED <<poll_started, due_at>>
    /\ UNCHANGED <<clock, last_update_time, done_started, poll_ended>>
    /\ UNCHANGED <<real, slept, steps>>
    /\ UNCHANGED notclock

\* The for loop over SONGS, as PollDone.
DriftPoll ==
    /\ loop_pc = "poll"
    /\ \E d \in DriftPollSeconds :
        /\ real + d <= MaxReal
        /\ real' = real + d
        /\ clock' = clock + d
    /\ last_update_time' = recorded_time(loop_time, clock')
    /\ done_started' = poll_started
    /\ poll_ended' = clock'
    /\ loop_pc' = "sleep"
    /\ due_at' = due_after(None, TRUE, last_update_time', clock', real')
    /\ UNCHANGED <<loop_time, poll_started, slept, steps>>
    /\ UNCHANGED notclock

\* time.sleep(60), a part of it: the call returns when 60 seconds have
\* passed.
DriftSleep ==
    /\ loop_pc = "sleep"
    /\ real + SleepStep <= MaxReal
    /\ real' = real + SleepStep
    /\ clock' = clock + SleepStep
    /\ IF slept + SleepStep >= TickSeconds
       THEN slept' = 0 /\ loop_pc' = "top"
       ELSE slept' = slept + SleepStep /\ loop_pc' = "sleep"
    /\ due_at' = due_after(due_at, TRUE, last_update_time, clock', real')
    /\ UNCHANGED <<loop_time, last_update_time, poll_started, done_started,
                   poll_ended, steps>>
    /\ UNCHANGED notclock

\* The wall clock is set (a correction of its drift) while the loop is idle.
ClockStep ==
    /\ loop_pc \in {"sleep", "top"}
    /\ steps < MaxSteps
    /\ steps' = steps + 1
    /\ \E d \in DriftSeconds :
        /\ clock + d >= 0
        /\ clock' = clock + d
    /\ due_at' = due_after(due_at, TRUE, last_update_time, clock', real)
    /\ UNCHANGED <<loop_time, last_update_time, loop_pc, poll_started,
                   done_started, poll_ended, real, slept>>
    /\ UNCHANGED notclock

NextDrift == DriftTop \/ DriftPoll \/ DriftSleep \/ ClockStep

SpecDrift == Init /\ [][NextDrift]_vars

\* --------------------------------- update_counts.py: fetch_play_count

\* The retries after the first attempt and the seconds of the backoff.
MAX_RETRIES == 2
BACKOFF_SECONDS == 3

\* What requests.get and r.raise_for_status() may raise.
Raised(e) == [raised |-> e]
FetchErrors ==
    {Raised(e) :
        e \in {"ConnectionError", "Timeout", "HTTPError", "TooManyRedirects"}}

\* What an attempt comes to: an exception, a page in which a value is found,
\* a page in which none is.
Page(val) == [page |-> val]
FetchOutcomes ==
    FetchErrors \cup {Page(v) : v \in Counts} \cup {Page(None)}

\* The same wait after every failed attempt.
backoff_fixed(n) == BACKOFF_SECONDS

\* BACKOFF_SECONDS * attempt
backoff(n) == BACKOFF_SECONDS * n

\* One pass of the for loop's try block: a page ends the call with what was
\* found in it; an exception is kept in last_err, and the loop goes on to
\* the backoff while attempt <= MAX_RETRIES, else it is over and None is
\* returned.
FetchAttempt ==
    /\ fetch_pc = "attempt"
    /\ \E o \in FetchOutcomes :
        /\ tries' = Append(tries, o)
        /\ IF o \in FetchErrors
           THEN /\ last_err' = o
                /\ fetch_pc' = IF attempt <= MAX_RETRIES
                               THEN "backoff" ELSE "returned"
                /\ fetch_ret' = None
           ELSE /\ fetch_ret' = o.page
                /\ fetch_pc' = "returned"
                /\ UNCHANGED last_err
    /\ UNCHANGED <<attempt, waits>>
    /\ UNCHANGED notfetch

\* time.sleep(BACKOFF_SECONDS * attempt), then the next attempt.
FetchBackoff ==
    /\ fetch_pc = "backoff"
    /\ waits' = Append(waits, backoff(attempt))
    /\ attempt' = attempt + 1
    /\ fetch_pc' = "attempt"
    /\ UNCHANGED <<last_err, tries, fetch_ret>>
    /\ UNCHANGED notfetch

NextFetch == FetchAttempt \/ FetchBackoff

\* requests.get has a timeout and time.sleep returns: a call under way goes
\* on.
SpecFetch == Init /\ [][NextFetch]_vars /\ WF_vars(NextFetch)

\* --------------------------------------- update_counts.py: build_summary

\* Longest series build_summary is given.
MaxSumLen == 3

\* The seconds of an hour.
HourSeconds == 3600

\* The stored samples: three hours of one morning and the middle one of the
\* next day, two values.
SumDateTimes ==
    {DateTime(0, 9, 0), DateTime(0, 10, 0), DateTime(0, 11, 0),
     DateTime(1, 10, 0)}
SumCounts == {9, 10}
SumRows ==
    {[timestamp |-> strftime(dt), play_count |-> str(c)] :
        dt \in SumDateTimes, c \in SumCounts}

\* The series update_song stores: no value below the one before it, no two
\* neighbours of one calendar hour.
SumInputs ==
    {d \in UNION {[1..n -> SumRows] : n \in 0..MaxSumLen} :
        \A i \in 2..Len(d) :
            /\ int(d[i].play_count) >= int(d[i - 1].play_count)
            /\ hour_bucket(strptime(d[i].timestamp))
                   # hour_bucket(strptime(d[i - 1].timestamp))}

\* The readings of datetime.now(IST) in find_reference.
SumNows == {DateTime(0, 11, 0), DateTime(1, 10, 0)}

\* abs()
abs(x) == IF x < 0 THEN 0 - x ELSE x

\* safe_parse_ts(ts): the datetime, or None.
safe_parse_ts(ts) == IF is_timestamp(ts) THEN strptime(ts) ELSE PyNone

\* The test with <= in the place of <.
is_closer_or_equal(diff, min_diff) == diff <= min_diff

\* diff < min_diff
is_closer(diff, min_diff) == diff < min_diff

\* find_reference's for loop from entry i on. closest = None stands for
\* min_diff = inf, which every diff is below.
RECURSIVE find_reference_from(_, _, _, _, _)
find_reference_from(es, i, target_time, closest, min_diff) ==
    IF i > Len(es) THEN closest
    ELSE LET t == safe_parse_ts(es[i].timestamp) IN
         IF t = PyNone
         THEN find_reference_from(es, i + 1, target_time, closest, min_diff)
         ELSE LET diff == abs(SecondsOf(t) - target_time) IN
              IF closest = PyNone \/ is_closer(diff, min_diff)
              THEN find_reference_from(es, i + 1, target_time, es[i], diff)
              ELSE find_reference_from(es, i + 1, target_time, closest,
                                       min_diff)

\* find_reference(entries, hours_back), with the reading of the clock.
find_reference(es, hours_back, now) ==
    find_reference_from(es, 1, SecondsOf(now) - hours_back * HourSeconds,
                        PyNone, 0)

\* The entry of summary['songs'] built from the series and the references.
song_summary(d, p_hour, p_day) ==
    LET curr_count == int(Last(d).play_count) IN
    [present |-> TRUE,
     current |-> PyInt(curr_count),
     previous_hour |->
         IF p_hour # PyNone THEN PyInt(int(p_hour.play_count)) ELSE PyNone,
     hour_increase |->
         IF p_hour # PyNone THEN PyInt(curr_count - int(p_hour.play_count))
         ELSE PyNone,
     previous_24h |->
         IF p_day # PyNone THEN PyInt(int(p_day.play_count)) ELSE PyNone,
     day_increase |->
         IF p_day # PyNone THEN PyInt(curr_count - int(p_day.play_count))
         ELSE PyNone,
     entries |-> Len(d)]

\* build_summary() for one item: an empty series is passed over.
BuildSummary ==
    /\ sum_pc = "in"
    /\ LET d == load_json(sum_file, TRUE) IN
       IF d = <<>>
       THEN /\ summary' = NoSummary
            /\ UNCHANGED <<prev_hour, prev_day>>
       ELSE /\ prev_hour' = find_reference(d, 1, sum_now_hour)
            /\ prev_day' = find_reference(d, 24, sum_now_day)
            /\ summary' = song_summary(d, prev_hour', prev_day')
    /\ sum_pc' = "out"
    /\ UNCHANGED <<sum_file, sum_now_hour, sum_now_day>>
    /\ UNCHANGED notsum

NextSum == BuildSummary

InitSum ==
    /\ InitApp
    /\ InitUp
    /\ InitGapIdle
    /\ InitItemsOf("none")
    /\ InitSched
    /\ sum_file \in {NoFile} \cup {FileOf(json_dump(d)) : d \in SumInputs}
    /\ sum_now_hour \in SumNows
    /\ sum_now_day \in SumNows
    /\ prev_hour = PyNone
    /\ prev_day = PyNone
    /\ summary = NoSummary
    /\ sum_pc = "in"
    /\ InitExportIdle
    /\ InitDriftIdle
    /\ InitAgainIdle
    /\ InitRaceIdle
    /\ InitFetch

SpecSum == InitSum /\ [][NextSum]_vars

\* build_summary() once more over the same store, the clock reading what it
\* reads then.
SummaryAgain ==
    /\ sum_pc = "out"
    /\ \E now_hour \in SumNows, now_day \in SumNows :
        LET d == load_json(sum_file, TRUE) IN
        sum_again' = IF d = <<>> THEN NoSummary
                     ELSE song_summary(d, find_reference(d, 1, now_hour),
                                       find_reference(d, 24, now_day))
    /\ sum_pc' = "again"
    /\ UNCHANGED <<sum_file, sum_now_hour, sum_now_day, prev_hour, prev_day,
                   summary>>
    /\ UNCHANGED <<upvars, appvars, gapvars, itemvars, schedvars, exportvars,
                   driftvars, fetchvars, racevars>>

NextAgain == BuildSummary \/ SummaryAgain

SpecAgain == InitSum /\ [][NextAgain]_vars

\* ------------------- convert_csv_to_json.py: convert_all and the two stores

\* Longest series and longest CSV file of the runs with convert_all.
MaxExportLen == 2

\* The clock readings and the fetched values of these runs.
ExportDateTimes == {DateTime(0, 9, 0), DateTime(0, 10, 0)}
ExportCounts == {9, 10}

\* load_csv(path): the rows after the header in which both fields are
\* filled, as texts.
load_csv(f) ==
    IF ~f.exists \/ f.text = <<>> THEN <<>>
    ELSE SelectSeq(Tail(f.text),
                   LAMBDA r : r.timestamp # <<>> /\ r.play_count # <<>>)

\* write_json(path, data), uninterrupted.
write_json(d) == FileOf(json_dump(d))

\* One call of update_song on the store: firestorm_history.json is
\* SONGS['firestorm']['json_file'].
ExportUpdate ==
    /\ \E fetched \in ExportCounts, now \in ExportDateTimes :
        LET ld == load_json(json_file, TRUE)
            r == update_decision(ld, fetched, now)
        IN /\ Len(r.data) <= MaxExportLen
           /\ loaded' = ld
           /\ read_ok' = (~json_file.exists \/ json_ok(json_file.text))
           /\ count' = fetched
           /\ now_dt' = now
           /\ data' = r.data
           /\ ret' = r.ret
           /\ msg' = r.msg
           /\ json_file' = IF r.save THEN save_json(r.data) ELSE json_file
           /\ saves' = IF r.save THEN (saves + 1) % 2 ELSE saves
    /\ UNCHANGED <<tmp_file, pc>>
    /\ last_op' = "update"
    /\ UNCHANGED <<appvars, notexport>>

\* One poll of app.py in which a new value is appended and saved to
\* play_count_history.csv, uninterrupted.
ExportPoll ==
    /\ Len(entries) < MaxExportLen
    /\ \E c \in ExportCounts, current_time \in ExportDateTimes :
        /\ is_new_entry(entries, PyStr(str(c)))
        /\ entry' = app_entry(PyStr(str(c)), current_time)
    /\ entries' = Append(entries, entry')
    /\ csv_file' = save_entry_to_csv(csv_file, entry')
    /\ sched_pc' = "idle"
    /\ UNCHANGED <<is_new_file, buf, csv_before, homevars>>
    /\ last_op' = "poll"
    /\ UNCHANGED <<upvars, notexport>>

\* convert_all() for 'firestorm': CSV_FILES names play_count_history.csv,
\* OUTPUT_FILES names firestorm_history.json.
ConvertAll ==
    /\ LET rows == load_csv(csv_file) IN
       IF rows = <<>>
       THEN UNCHANGED json_file
       ELSE json_file' = write_json(filter_hour_gaps(rows, GapMinutes))
    /\ UNCHANGED <<tmp_file, data, loaded, read_ok, count, now_dt, ret, msg,
                   saves, pc>>
    /\ last_op' = "convert"
    /\ UNCHANGED <<appvars, notexport>>

NextExport == ExportUpdate \/ ExportPoll \/ ConvertAll

SpecExport == Init /\ [][NextExport]_vars

\* ------------------- update_counts.py: two executions of update_song at once

\* Longest series of these runs.
MaxRaceLen == 2

\* The clock readings and the fetched values of these runs, and the series
\* an earlier run has left in the store.
RaceDateTimes == {DateTime(0, 9, 0), DateTime(0, 10, 0)}
RaceCounts == {9, 10}
RaceStored == {<<>>, <<new_entry(9, DateTime(0, 9, 0))>>}

\* A place of a file nothing was written to: a write past the end of a file
\* leaves such places before it.
Hole == [tok |-> "NUL"]

\* Is the text what one json.dump wrote, whole: "[", entries, "]"?
json_complete(text) ==
    /\ json_ok(text)
    /\ \A i \in 2..(Len(text) - 1) : "timestamp" \in DOMAIN text[i]

\* The store as open() and json.load find it.
race_store ==
    IF fs_store = 0 THEN NoFile
    ELSE IF json_complete(fs_text[fs_store]) THEN FileOf(fs_text[fs_store])
    ELSE FileOf(<<>>)

\* f.write of one token at the file object's offset.
write_at(text, offset, tok) ==
    IF offset < Len(text) THEN [text EXCEPT ![offset + 1] = tok]
    ELSE text \o [i \in 1..(offset - Len(text)) |-> Hole] \o <<tok>>

\* An inode no name and no open file refers to.
free_inode ==
    CHOOSE i \in Inodes :
        /\ i \notin {fs_store, fs_tmp} \cup {proc[p].handle : p \in Procs}
        /\ \A j \in Inodes :
               j \notin {fs_store, fs_tmp} \cup {proc[p].handle : p \in Procs}
                   => i <= j

\* update_song up to its call of save_json.
RaceBegin(p) ==
    /\ proc[p].pc = "new"
    /\ \E fetched \in RaceCounts, now \in RaceDateTimes :
        LET r == update_decision(load_json(race_store, TRUE), fetched, now)
        IN /\ Len(r.data) <= MaxRaceLen
           /\ proc' = [proc EXCEPT ![p] =
                  [pc |-> IF r.save THEN "open" ELSE "done",
                   data |-> r.data, handle |-> 0, offset |-> 0]]
    /\ UNCHANGED <<fs_text, fs_store, fs_tmp, race_orig, race_appended>>
    /\ UNCHANGED notrace

\* open(tmp, 'w'): the file of that name is emptied, or one is created.
RaceOpen(p) ==
    /\ proc[p].pc = "open"
    /\ LET i == IF fs_tmp # 0 THEN fs_tmp ELSE free_inode IN
       /\ fs_text' = [fs_text EXCEPT ![i] = <<>>]
       /\ fs_tmp' = i
       /\ proc' = [proc EXCEPT ![p].pc = "write", ![p].handle = i,
                               ![p].offset = 0]
    /\ UNCHANGED <<fs_store, race_orig, race_appended>>
    /\ UNCHANGED notrace

\* json.dump(data, f, indent=2), a piece at a time, into the open file,
\* whatever name it has by now.
RaceWrite(p) ==
    /\ proc[p].pc = "write"
    /\ proc[p].offset < Len(json_dump(proc[p].data))
    /\ fs_text' = [fs_text EXCEPT ![proc[p].handle] =
                      write_at(@, proc[p].offset,
                               json_dump(proc[p].data)[proc[p].offset + 1])]
    /\ proc' = [proc EXCEPT ![p].offset = @ + 1]
    /\ UNCHANGED <<fs_store, fs_tmp, race_orig, race_appended>>
    /\ UNCHANGED notrace

\* The with block is left and os.replace(tmp, path) is called: the file
\* named tmp takes the store's name and update_song returns True; with no
\* file of that name FileNotFoundError ends the execution.
RaceReplace(p) ==
    /\ proc[p].pc = "write"
    /\ proc[p].offset = Len(json_dump(proc[p].data))
    /\ IF fs_tmp = 0
       THEN /\ proc' = [proc EXCEPT ![p].pc = "failed", ![p].handle = 0]
            /\ UNCHANGED <<fs_store, fs_tmp, race_appended>>
       ELSE /\ fs_store' = fs_tmp
            /\ fs_tmp' = 0
            /\ proc' = [proc EXCEPT ![p].pc = "done", ![p].handle = 0]
            /\ race_appended' = race_appended \cup {Last(proc[p].data)}
    /\ UNCHANGED <<fs_text, race_orig>>
    /\ UNCHANGED notrace

NextRace ==
    \E p \in Procs :
        RaceBegin(p) \/ RaceOpen(p) \/ RaceWrite(p) \/ RaceReplace(p)

\* The store an earlier run has left, and two executions not begun.
InitRace ==
    /\ InitApp
    /\ InitUp
    /\ InitGapIdle
    /\ InitItemsOf("none")
    /\ InitSched
    /\ InitSumIdle
    /\ InitExportIdle
    /\ InitDriftIdle
    /\ InitFetch
    /\ InitAgainIdle
    /\ \E d \in RaceStored :
        /\ race_orig = d
        /\ fs_store = IF d = <<>> THEN 0 ELSE 1
        /\ fs_text = [i \in Inodes |->
                         IF i = 1 /\ d # <<>> THEN json_dump(d) ELSE <<>>]
    /\ fs_tmp = 0
    /\ proc = [p \in Procs |-> NewProc]
    /\ race_appended = {}

SpecRace == InitRace /\ [][NextRace]_vars

\* ------------------------------------------------- properties of update_song

\* The series a store file holds, as a successful read returns it.
Stored(f) == IF f.exists /\ json_ok(f.text) THEN json_load(f.text) ELSE <<>>

\* C1. Monotonicity: in the stored series every sample's play_count is at
\* least the play_count of the sample stored immediately before it.
C1_Monotonic ==
    LET s == Stored(json_file) IN
    \A i \in 2..Len(s) : int(s[i].play_count) >= int(s[i - 1].play_count)

\* A series of three samples, the last one larger than the first, after a
\* decreasing fetch was turned away.
C1_Witness ==
    LET s == Stored(json_file) IN
    /\ Len(s) = 3
    /\ int(s[3].play_count) > int(s[1].play_count)
    /\ msg = "decreasing count"

\* C2. Bucket idempotence: the stored series never holds two samples whose
\* timestamps fall in the same calendar hour.
C2_OneSamplePerHour ==
    LET s == Stored(json_file) IN
    \A i, j \in 1..Len(s) :
        i < j => hour_bucket(strptime(s[i].timestamp))
                     # hour_bucket(strptime(s[j].timestamp))

\* C3. Decreasing-value rejection: a call that loaded a non-empty series and
\* fetched a value below its last play_count appends nothing, does not write
\* the store and reports the decreasing count, whatever the hour.
C3_DecreasingRejected ==
    [][(/\ loaded' # <<>>
        /\ count' # None
        /\ count' < int(Last(loaded').play_count))
       => (/\ json_file' = json_file
           /\ saves' = saves
           /\ data' = loaded'
           /\ ret' = FALSE
           /\ msg' = "decreasing count")]_vars

\* A decreasing fetch turned away in an hour the store has no sample of.
C3_Witness ==
    /\ msg = "decreasing count"
    /\ loaded # <<>>
    /\ count < int(Last(loaded).play_count)
    /\ hour_bucket(now_dt) # hour_bucket(strptime(Last(loaded).timestamp))

\* C4. Same-bucket skip: a call that loaded a non-empty series, fetched a
\* value not below its last play_count, in the calendar hour of its last
\* timestamp, appends nothing and leaves the store as it was.
C4_SameBucketSkipped ==
    [][(/\ loaded' # <<>>
        /\ count' # None
        /\ count' >= int(Last(loaded').play_count)
        /\ hour_bucket(now_dt') = hour_bucket(strptime(Last(loaded').timestamp)))
       => (/\ json_file' = json_file
           /\ saves' = saves
           /\ data' = loaded'
           /\ ret' = FALSE)]_vars

\* A skip in the last sample's hour of a value that differs from the last.
C4_Witness ==
    /\ msg = "same hour"
    /\ loaded # <<>>
    /\ count > int(Last(loaded).play_count)
    /\ now_dt # strptime(Last(loaded).timestamp)

\* C5. Fetch failure: a call whose fetch yields no value changes nothing (no
\* append, no write of the store or of its temporary file) and returns False.
C5_FetchFailed ==
    [][count' = None
       => (/\ json_file' = json_file
           /\ tmp_file' = tmp_file
           /\ saves' = saves
           /\ data' = loaded'
           /\ ret' = FALSE)]_vars

\* A failed fetch on a store that holds samples.
C5_Witness ==
    /\ msg = "No count"
    /\ count = None
    /\ Len(Stored(json_file)) >= 2

\* C6. Acceptance: a call that fetched a value and loaded either nothing, or
\* a series whose last play_count is not above the value and whose last
\* timestamp is in another calendar hour, appends exactly one sample, read
\* back as the current time and the fetched value, and persists the series.
C6_Accepted ==
    [][(/\ count' # None
        /\ \/ loaded' = <<>>
           \/ /\ count' >= int(Last(loaded').play_count)
              /\ hour_bucket(now_dt')
                     # hour_bucket(strptime(Last(loaded').timestamp)))
       => (/\ ret' = TRUE
           /\ saves' # saves
           /\ Len(Stored(json_file')) = Len(loaded') + 1
           /\ SubSeq(Stored(json_file'), 1, Len(loaded')) = loaded'
           /\ strptime(Last(Stored(json_file')).timestamp) = now_dt'
           /\ int(Last(Stored(json_file')).play_count) = count')]_vars

\* A sample appended to a non-empty series on the next day, and a bootstrap.
C6_Witness ==
    /\ msg = "Appended"
    /\ Len(loaded) >= 1
    /\ now_dt.hour = strptime(Last(loaded).timestamp).hour
    /\ count = 10

\* C7. Append-only history: a call that read the store successfully leaves
\* the persisted series as it was, or as it was with one sample added at the
\* end.
C7_AppendOnly ==
    [][read_ok'
       => \/ Stored(json_file') = Stored(json_file)
          \/ /\ Len(Stored(json_file')) = Len(Stored(json_file)) + 1
             /\ SubSeq(Stored(json_file'), 1, Len(Stored(json_file)))
                    = Stored(json_file)]_vars

\* A sample added at the end of a series of two.
C7_Witness ==
    /\ read_ok
    /\ msg = "Appended"
    /\ Len(loaded) = 2
    /\ Len(Stored(json_file)) = 3

\* C8. Failed read never overwrites: a call whose read of an existing store
\* fails leaves the file's content as it was.
C8_FailedReadKeepsFile ==
    [][(json_file.exists /\ ~read_ok') => json_file' = json_file]_vars

\* --------------------------------------------------- properties of save_json

\* C9. Crash-atomic write: wherever the process dies in save_json, the store
\* file holds a complete series: each step leaves the store as it was or
\* makes it the complete new series, and the store is never a partial text.
C9_CrashAtomic ==
    /\ [](json_file.exists => json_ok(json_file.text))
    /\ [][\/ json_file' = json_file
          \/ json_file' = FileOf(json_dump(data))]_vars

\* A crash that left a partly written temporary file beside a store that
\* holds the series from before the call.
C9_Witness ==
    /\ msg = "crashed"
    /\ tmp_file.exists
    /\ tmp_file.text # <<>>
    /\ ~json_ok(tmp_file.text)
    /\ json_file.exists
    /\ Stored(json_file) = loaded
    /\ loaded # <<>>

\* --------------------------------------------- properties of the CSV store

\* An entry as a read of the CSV file returns it.
AsRead(e) == [timestamp |-> e.timestamp, play_count |-> PyInt(int(e.play_count.str))]

\* C10. Read/write isolation: a load by home() that runs while the scheduler
\* is inside save_entry_to_csv returns the series the file held before the
\* write or that series with the new entry at its end, and does not fail on
\* a partly written file.
C10_ReadIsolated ==
    [][(Home /\ sched_pc \in {"open", "rows", "close"})
       => LET pre == load_entries_from_csv(csv_before).entries IN
          /\ view'.ok
          /\ \/ view'.entries = pre
             \/ view'.entries = Append(pre, AsRead(entry))]_vars

\* ------------------------------------------ properties of filter_hour_gaps

\* C13. Gap filter idempotence: filter_hour_gaps of its own output is that
\* output, for every list of rows.
C13_FilterIdempotent ==
    gap_pc = "twice" => gap_twice = gap_out

\* The filter applied twice to rows out of order whose newest one was
\* appended after the scan, less than 55 minutes after the last kept one.
C13_Witness ==
    /\ gap_pc = "twice"
    /\ Len(gap_in) = 3
    /\ gap_in # sorted_entries(gap_in)
    /\ Len(gap_out) = 2
    /\ SecondsOf(parse_ts(gap_out[2].timestamp))
           - SecondsOf(parse_ts(gap_out[1].timestamp)) = 30 * 60

\* C14. Gap filter endpoint guarantee: for a non-empty input the output ends
\* with the input's last sample in timestamp order, timestamp and value.
C14_NewestKept ==
    (gap_pc # "in" /\ gap_in # <<>>)
        => (gap_out # <<>> /\ Last(gap_out) = Last(sorted_entries(gap_in)))

\* The entries of a list at the places of a set, in the list's order.
Pick(s, S) ==
    [j \in 1..Cardinality(S) |->
        s[CHOOSE i \in S : Cardinality({k \in S : k <= i}) = j]]

\* The seconds from entry a to entry b.
SecondsBetween(a, b) ==
    SecondsOf(parse_ts(b.timestamp)) - SecondsOf(parse_ts(a.timestamp))

\* The least spacing of kept entries: 55 minutes, in seconds.
MinSpacing == (GapMinutes - GapTolerance) * 60

\* C24. Gap filter spacing: for a non-empty input the output is in ascending
\* timestamp order, begins with the earliest input sample and holds input
\* samples only; consecutive output samples are at least 55 minutes apart,
\* the final pair excepted; every dropped input sample lies less than 55
\* minutes after the most recent kept sample before it.
C24_Spacing ==
    (gap_pc # "in" /\ gap_in # <<>>) =>
        LET t == sorted_entries(gap_in)
            n == Len(t)
        IN /\ \A j \in 2..Len(gap_out) :
                  SecondsBetween(gap_out[j - 1], gap_out[j]) >= 0
           /\ gap_out # <<>> /\ gap_out[1] = t[1]
           /\ \A j \in 1..Len(gap_out) :
                  \E i \in 1..Len(gap_in) : gap_out[j] = gap_in[i]
           /\ \A j \in 2..(Len(gap_out) - 1) :
                  SecondsBetween(gap_out[j - 1], gap_out[j]) >= MinSpacing
           /\ \E S \in SUBSET (1..n) :
                  /\ 1 \in S
                  /\ gap_out = Pick(t, S)
                  /\ \A i \in (1..n) \ S :
                         LET k == CHOOSE k \in S :
                                      k < i /\ \A m \in S : m < i => m <= k
                             d == SecondsBetween(t[k], t[i])
                         IN d >= 0 /\ d < MinSpacing

\* Rows out of order: the one 30 minutes after the first is dropped, the one
\* 55 minutes after it is kept.
C24_Witness ==
    /\ gap_pc = "once"
    /\ Len(gap_in) = 3
    /\ parse_ts(gap_in[1].timestamp) = DateTime(0, 9, 55)
    /\ parse_ts(gap_in[2].timestamp) = DateTime(0, 9, 0)
    /\ parse_ts(gap_in[3].timestamp) = DateTime(0, 9, 30)
    /\ Len(gap_out) = 2
    /\ gap_out[2] = gap_in[1]

\* ------------------------------------------ properties of the catalog loops

\* C11. Failure isolation: a failure on one item (fetch or write) leaves the
\* other items processed in the same run or cycle, and the scheduling loop
\* alive: a run of main that is over, and a cycle that is over, has come to
\* every item, and update_play_count never ends.
C11_FailureIsolated ==
    /\ main_state \in {"done", "crashed"} => loop_done = Items
    /\ cycle_state # "dead"
    /\ (program = "app" /\ cycle_state = "idle") => loop_done \in {{}, Items}

\* -------------------------------------- properties of the scheduler's timing

\* C12, as claimed. The recorded poll time is the time the poll completed,
\* and a poll starts no sooner than 900 seconds after the completion of the
\* poll before it.
C12_IntervalAfterCompletion ==
    /\ last_update_time = poll_ended
    /\ (loop_pc = "poll" /\ poll_ended # None)
           => poll_started - poll_ended >= PollInterval

\* C12, amended. A poll starts only when none has completed or at least 900
\* seconds separate the clock reading from the recorded time; the recorded
\* time is the reading taken when the completed poll started, so two polls
\* start at least 900 seconds apart.
C12_IntervalFromStart ==
    /\ last_update_time = done_started
    /\ loop_pc = "poll"
           => (poll_started = loop_time
               /\ poll_due(last_update_time, loop_time))
    /\ (loop_pc = "poll" /\ done_started # None)
           => poll_started - done_started >= PollInterval

\* A second poll under way, started 900 seconds after the first one started
\* and 780 seconds after it completed.
C12_Witness ==
    /\ loop_pc = "poll"
    /\ done_started = 0
    /\ poll_ended = 120
    /\ poll_started = 900

\* ------------------------------------------------ properties of build_summary

\* The series build_summary loaded.
SumData == load_json(sum_file, TRUE)

\* The seconds between an entry's timestamp and the target of a look-back.
SumDiff(e, now, hours_back) ==
    abs(SecondsOf(strptime(e.timestamp))
            - (SecondsOf(now) - hours_back * HourSeconds))

\* Is entry i of the series the first of the entries nearest to the target?
FirstNearest(d, i, now, hours_back) ==
    /\ \A j \in 1..Len(d) :
           SumDiff(d[j], now, hours_back) >= SumDiff(d[i], now, hours_back)
    /\ \A j \in 1..(i - 1) :
           SumDiff(d[j], now, hours_back) > SumDiff(d[i], now, hours_back)

\* C15. Nearest reference: find_reference returns the stored sample nearest
\* to now - h hours, the first in stored order among equally near ones, and
\* hour_increase and day_increase are the latest value minus the
\* reference's.
C15_NearestReference ==
    (sum_pc = "out" /\ SumData # <<>>) =>
        LET d == SumData IN
        /\ \E i \in 1..Len(d) :
               /\ FirstNearest(d, i, sum_now_hour, 1)
               /\ prev_hour = d[i]
               /\ summary.hour_increase
                      = PyInt(int(Last(d).play_count) - int(d[i].play_count))
        /\ \E i \in 1..Len(d) :
               /\ FirstNearest(d, i, sum_now_day, 24)
               /\ prev_day = d[i]
               /\ summary.day_increase
                      = PyInt(int(Last(d).play_count) - int(d[i].play_count))

\* Samples one hour before and one hour after the target: the first one is
\* the reference.
C15_Witness ==
    /\ sum_pc = "out"
    /\ sum_now_hour = DateTime(0, 11, 0)
    /\ SumData = <<[timestamp |-> strftime(DateTime(0, 9, 0)),
                    play_count |-> str(9)],
                   [timestamp |-> strftime(DateTime(0, 11, 0)),
                    play_count |-> str(10)]>>
    /\ prev_hour = SumData[1]
    /\ summary.hour_increase = PyInt(1)

\* C16. Too-short series: with fewer than 2 samples the deltas are reported
\* as unavailable, never as a number.
C16_ShortSeriesUnavailable ==
    (sum_pc = "out" /\ Len(SumData) < 2) =>
        \/ summary = NoSummary
        \/ (summary.hour_increase = PyNone /\ summary.day_increase = PyNone)

\* ---------------------------------------------- properties of home's rate

\* The value of a rate as a quotient.
RateValue(v) == IF v = PyInt(0) THEN PyFloat(0, 1) ELSE v

\* C17. Average rate: for a series of at least two samples written
\* oldest-first and read back by home(), avg_rate is the newest play_count
\* minus the oldest one divided by the minutes between the two timestamps,
\* and 0 when that span is zero or negative.
C17_AverageRate ==
    (view.ok /\ Len(view.entries) >= 2
        /\ \A i \in 1..Len(view.entries) :
               "timestamp" \in DOMAIN view.entries[i]) =>
        LET oldest == view.entries[1]
            newest == Last(view.entries)
            seconds == SecondsOf(strptime(newest.timestamp))
                           - SecondsOf(strptime(oldest.timestamp))
            increase == newest.play_count.int - oldest.play_count.int
        IN /\ avg_rate # PyNone
           /\ IF seconds > 0
              THEN RateValue(avg_rate).num * seconds
                       = increase * MinuteSeconds * RateValue(avg_rate).den
              ELSE RateValue(avg_rate).num = 0

\* ------------------------------------- properties of the in-memory series

\* C19. In-memory series never ahead of the durable one: when no save is
\* under way, also after a save has failed, every entry of the in-memory
\* series is a row of the persisted file.
C19_MemoryNotAhead ==
    sched_pc \in {"idle", "dead"} =>
        \A i \in 1..Len(entries) :
            \E j \in 2..Len(csv_file.text) :
                csv_file.text[j] = csv_row(entries[i])

\* ------------------------------------------ properties of the two stores

\* C18. Export independence: a run of convert_all changes nothing of the
\* series the next update_song loads, and no sample update_song stored is
\* lost by it.
C18_ExportIndependent ==
    [][last_op' = "convert" =>
          /\ load_json(json_file', TRUE) = load_json(json_file, TRUE)
          /\ \A i \in 1..Len(Stored(json_file)) :
                 \E j \in 1..Len(Stored(json_file')) :
                     Stored(json_file')[j] = Stored(json_file)[i]]_vars

\* ------------------------------------------ properties of the stored order

\* C20. Timestamp order: the timestamps of the stored series never decrease
\* in stored order, whatever the clock reads from call to call.
C20_TimestampOrder ==
    LET s == Stored(json_file) IN
    \A i \in 2..Len(s) :
        SecondsOf(strptime(s[i].timestamp))
            >= SecondsOf(strptime(s[i - 1].timestamp))

\* -------------------------------------- properties of the scheduler's series

\* The number a play_count stands for, str or int.
CountOf(v) == IF "str" \in DOMAIN v THEN int(v.str) ELSE v.int

\* C21. No unchanged duplicate: neither in the in-memory entries nor in the
\* CSV file do two consecutive samples have the same calendar hour and the
\* same play count, restarts included.
C21_NoUnchangedDuplicate ==
    /\ \A i \in 2..Len(entries) :
           ~ /\ hour_bucket(strptime(entries[i].timestamp))
                    = hour_bucket(strptime(entries[i - 1].timestamp))
             /\ CountOf(entries[i].play_count)
                    = CountOf(entries[i - 1].play_count)
    /\ \A j \in 3..Len(csv_file.text) :
           ~ /\ hour_bucket(strptime(csv_file.text[j].timestamp))
                    = hour_bucket(strptime(csv_file.text[j - 1].timestamp))
             /\ int(csv_file.text[j].play_count)
                    = int(csv_file.text[j - 1].play_count)

\* --------------------------------- properties of the scheduler's readiness

\* C22. Tick-bounded readiness: once the idle loop's 900 seconds since the
\* recorded poll time have elapsed, the next poll starts within one tick of
\* 60 seconds, also when the wall clock is set.
C22_TickBounded ==
    due_at # None => real - due_at <= TickSeconds

\* ------------------------------------------ properties of fetch_play_count

\* The waits after the first n failed attempts: 3 seconds, then 6.
WaitsAfter(n) == [i \in 1..n |-> BACKOFF_SECONDS * i]

\* C23. Bounded retry: fetch_play_count returns; it makes at most 3
\* attempts, waits 3 s after the 1st and 6 s after the 2nd failed attempt
\* and not after the 3rd, returns None once all have failed, and returns at
\* the first attempt that gets a page: the value found, or None.
C23_BoundedRetry ==
    /\ <>(fetch_pc = "returned")
    /\ [](/\ Len(tries) <= MAX_RETRIES + 1
          /\ \A i \in 1..(Len(tries) - 1) : tries[i] \in FetchErrors
          /\ fetch_pc = "attempt" => waits = WaitsAfter(Len(tries))
          /\ fetch_pc = "returned" =>
                 IF Last(tries) \in FetchErrors
                 THEN /\ Len(tries) = MAX_RETRIES + 1
                      /\ waits = WaitsAfter(MAX_RETRIES)
                      /\ fetch_ret = None
                 ELSE /\ waits = WaitsAfter(Len(tries) - 1)
                      /\ fetch_ret = Last(tries).page)

\* Three failed attempts, two waits, no value.
C23_Witness ==
    /\ fetch_pc = "returned"
    /\ Len(tries) = 3
    /\ Last(tries) \in FetchErrors
    /\ waits = <<3, 6>>
    /\ fetch_ret = None

\* C25. Reproducible summary: two runs of build_summary over the same
\* persisted series give the same per-item values, whatever the clock reads
\* at each run.
C25_Reproducible ==
    sum_pc = "again" => sum_again = summary

\* ---------------------------------- properties of two executions at once

\* Have both executions come to their end?
RaceOver == \A p \in Procs : proc[p].pc \in {"done", "failed"}

\* C26. Overlapping runs: the store file at every moment holds a complete
\* series written by one save_json call, and when both executions are over
\* it holds the original series followed by exactly the samples that were
\* accepted.
C26_OverlapSafe ==
    /\ fs_store # 0 => json_complete(fs_text[fs_store])
    /\ RaceOver =>
           LET st == load_json(race_store, TRUE) IN
           /\ Len(st) = Len(race_orig) + Cardinality(race_appended)
           /\ SubSeq(st, 1, Len(race_orig)) = race_orig
           /\ \A e \in race_appended :
                  \E i \in (Len(race_orig) + 1)..Len(st) : st[i] = e

====
